---------------------------- MODULE Spec2Model ----------------------------
(***************************************************************************)
(* Model of the go-base32 codec (package base32, src/base32.go): the       *)
(* alphabet tables, NewAlphabet, the length helpers and the two            *)
(* bit-packing engines (OrderNormal / OrderInversed) for encode and decode.*)
(*                                                                         *)
(* Bytes are integers 0..255.  A Go string or []byte is a TLA+ sequence    *)
(* (Go index i is TLA+ index i+1).  Fixed-size Go arrays and the output    *)
(* buffers are functions over 0..size-1, indexed as in the source.         *)
(* A nil pointer / nil error is Nil (the empty tuple), a present value x   *)
(* is Some(x).                                                             *)
(***************************************************************************)
EXTENDS Integers, Sequences, FiniteSets, TLC

(***************************************************************************)
(* Machine arithmetic used by the source: &, |, <<, >> on non-negative     *)
(* values.  The encoder's int32 x and remain hold at most 12 bits and the  *)
(* decoder's uint32 acc at most 12 pending bits, so no operation wraps.    *)
(***************************************************************************)
RECURSIVE BitAnd(_, _)
BitAnd(a, b) ==
    IF a = 0 \/ b = 0 THEN 0
    ELSE (a % 2) * (b % 2) + 2 * BitAnd(a \div 2, b \div 2)

RECURSIVE BitOr(_, _)
BitOr(a, b) ==
    IF a = 0 THEN b
    ELSE IF b = 0 THEN a
    ELSE (IF a % 2 = 1 \/ b % 2 = 1 THEN 1 ELSE 0) + 2 * BitOr(a \div 2, b \div 2)

Shl(a, n) == a * (2 ^ n)

Shr(a, n) == a \div (2 ^ n)

Nil == << >>

Some(x) == << x >>

(***************************************************************************)
(* Alphabet                                                                *)
(***************************************************************************)
AlphabetSize == 32

OrderNormal == 0

OrderInversed == 1

\* 0xff: the "not a symbol" entry of decodeBytes
InvalidByte == 255

\* a Go array literal / string as an array indexed from 0
Arr(s) == [i \in 0 .. (Len(s) - 1) |-> s[i + 1]]

\* variant of the table initialisation that leaves the zero value in place
ZeroTable == [b \in 0 .. 255 |-> 0]

\* var decodeBytes [256]byte, every entry set to 0xff
InvalidTable == [b \in 0 .. 255 |-> InvalidByte]

\* the *Alphabet a successful construction returns
Alphabet(symbols, decodeBytes, order) ==
    [encodeSymbols |-> symbols, decodeBytes |-> decodeBytes, encodeOrder |-> order]

\* fmt.Errorf of NewAlphabet: the message kind and the byte it formats
AlphabetError(msg, b) == [Msg |-> msg, Byte |-> b]

\* variant of the loop whose printable test refuses the space character
RECURSIVE NewAlphabetLoopNoSpace(_, _, _, _, _, _)
NewAlphabetLoopNoSpace(alphabet, order, i, symbols, decodeBytes, duplicates) ==
    IF i >= Len(alphabet)
    THEN [alphabet |-> Some(Alphabet(symbols, decodeBytes, order)), err |-> Nil]
    ELSE LET b == alphabet[i + 1] IN
         IF b <= 32 \/ b > 126
         THEN [alphabet |-> Nil, err |-> Some(AlphabetError("unprintable byte", b))]
         ELSE IF b \in duplicates
         THEN [alphabet |-> Nil, err |-> Some(AlphabetError("duplicated byte", b))]
         ELSE NewAlphabetLoopNoSpace(alphabet, order, i + 1,
                                     [symbols EXCEPT ![i] = b],
                                     [decodeBytes EXCEPT ![b] = i],
                                     duplicates \cup {b})

\* the for-range loop of NewAlphabet from index i (Go index), carrying the
\* locals symbols, decodeBytes and duplicates
RECURSIVE NewAlphabetLoop(_, _, _, _, _, _)
NewAlphabetLoop(alphabet, order, i, symbols, decodeBytes, duplicates) ==
    IF i >= Len(alphabet)
    THEN [alphabet |-> Some(Alphabet(symbols, decodeBytes, order)), err |-> Nil]
    ELSE LET b == alphabet[i + 1] IN
         IF b < 32 \/ b > 126
         THEN [alphabet |-> Nil, err |-> Some(AlphabetError("unprintable byte", b))]
         ELSE IF b \in duplicates
         THEN [alphabet |-> Nil, err |-> Some(AlphabetError("duplicated byte", b))]
         ELSE NewAlphabetLoop(alphabet, order, i + 1,
                              [symbols EXCEPT ![i] = b],
                              [decodeBytes EXCEPT ![b] = i],
                              duplicates \cup {b})

NewAlphabet(alphabet, order) ==
    IF Len(alphabet) # AlphabetSize
    THEN [alphabet |-> Nil, err |-> Some(AlphabetError("invalid length", AlphabetSize))]
    ELSE NewAlphabetLoop(alphabet, order, 0,
                         [i \in 0 .. (AlphabetSize - 1) |-> 0], InvalidTable, {})

\* variant of the loop that stores the 1-based position of each symbol
RECURSIVE initDecodeLoopOneBased(_, _, _)
initDecodeLoopOneBased(alphabet, i, decodeBytes) ==
    IF i >= Len(alphabet) THEN decodeBytes
    ELSE initDecodeLoopOneBased(alphabet, i + 1,
                                [decodeBytes EXCEPT ![alphabet[i + 1]] = i + 1])

\* the second loop of initDecodeTable from index i
RECURSIVE initDecodeLoop(_, _, _)
initDecodeLoop(alphabet, i, decodeBytes) ==
    IF i >= Len(alphabet) THEN decodeBytes
    ELSE initDecodeLoop(alphabet, i + 1, [decodeBytes EXCEPT ![alphabet[i + 1]] = i])

initDecodeTable(alphabet) == initDecodeLoop(alphabet, 0, InvalidTable)

\* "ybndrfg8ejkmcpqxot1uwisza345h769" as written in the encodeSymbols literal
ZBASE32Symbols ==
    << 121, 98, 110, 100, 114, 102, 103, 56, 101, 106, 107, 109, 99, 112, 113, 120,
       111, 116, 49, 117, 119, 105, 115, 122, 97, 51, 52, 53, 104, 55, 54, 57 >>

\* the string handed to initDecodeTable for ZBASE32
ZBASE32String ==
    << 121, 98, 110, 100, 114, 102, 103, 56, 101, 106, 107, 109, 99, 112, 113, 120,
       111, 116, 49, 117, 119, 105, 115, 122, 97, 51, 52, 53, 104, 55, 54, 57 >>

ZBASE32 == Alphabet(Arr(ZBASE32Symbols), initDecodeTable(ZBASE32String), OrderInversed)

\* 'A'..'Z', '2'..'7' as written in the encodeSymbols literal
RFC4648Symbols ==
    << 65, 66, 67, 68, 69, 70, 71, 72, 73, 74, 75, 76, 77, 78, 79, 80,
       81, 82, 83, 84, 85, 86, 87, 88, 89, 90, 50, 51, 52, 53, 54, 55 >>

\* "ABCDEFGHIJKLMNOPQRSTUVWXYZ234567"
RFC4648String ==
    << 65, 66, 67, 68, 69, 70, 71, 72, 73, 74, 75, 76, 77, 78, 79, 80,
       81, 82, 83, 84, 85, 86, 87, 88, 89, 90, 50, 51, 52, 53, 54, 55 >>

RFC4648 == Alphabet(Arr(RFC4648Symbols), initDecodeTable(RFC4648String), OrderNormal)

\* the BECH32 encodeSymbols literal
BECH32Symbols ==
    << 113, 112, 122, 114, 121, 57, 120, 56, 103, 102, 50, 116, 118, 100, 119, 48,
       115, 51, 106, 110, 53, 52, 107, 104, 99, 101, 54, 109, 117, 97, 55, 108 >>

\* "qpzry9x8gf2tvdw0s3jn54khce6mua7l"
BECH32String ==
    << 113, 112, 122, 114, 121, 57, 120, 56, 103, 102, 50, 116, 118, 100, 119, 48,
       115, 51, 106, 110, 53, 52, 107, 104, 99, 101, 54, 109, 117, 97, 55, 108 >>

BECH32 == Alphabet(Arr(BECH32Symbols), initDecodeTable(BECH32String), OrderNormal)

(***************************************************************************)
(* Length helpers                                                          *)
(***************************************************************************)
EncodedLen(bytesLen) ==
    LET minBytes == bytesLen \div 5
        rem == bytesLen % 5
    IN  minBytes * 8 + rem * 2 + 1

\* variant of DecodedLen: the tight floor(5m/8) of standard base32
DecodedLenTight(bytesLen) == (bytesLen * 5) \div 8

DecodedLen(bytesLen) ==
    LET fullChunks == bytesLen \div 8
        remainder == bytesLen % 8
    IN  fullChunks * 5 + remainder

\* make([]byte, n): n zero bytes
MakeBuf(n) == [k \in 0 .. (n - 1) |-> 0]

\* buf[:n] as a string / slice value
Slice(buf, n) == [k \in 1 .. n |-> buf[k - 1]]


(***************************************************************************)
(* EncodeToSlice.  The locals of one call are the record                   *)
(* [output, o, remain, panic]: the output buffer, the write position, the  *)
(* carry (int32, -1 when nothing is pending) and whether an index into     *)
(* output was out of range (a Go run-time panic).                          *)
(***************************************************************************)
\* output[o] = encodeTable[v]; o++
Emit(st, encodeTable, v) ==
    IF st.panic \/ st.o \notin DOMAIN st.output
    THEN [st EXCEPT !.panic = TRUE]
    ELSE [st EXCEPT !.output[st.o] = encodeTable[v], !.o = st.o + 1]

\* case 0 of the OrderInversed switch
EncodeInversedCase0(st, inp, encodeTable) ==
    LET x == inp
        s1 == Emit(st, encodeTable, BitAnd(x, 31))
    IN  [s1 EXCEPT !.remain = Shr(x, 5)]

\* variant of case 1 that takes the second group one bit too high
EncodeInversedCase1Shift6(st, inp, encodeTable) ==
    LET x == BitOr(st.remain, Shl(inp, 3))
        s1 == Emit(st, encodeTable, BitAnd(x, 31))
        s2 == Emit(s1, encodeTable, BitAnd(Shr(x, 6), 31))
    IN  [s2 EXCEPT !.remain = Shr(x, 10)]

\* case 1 of the OrderInversed switch
EncodeInversedCase1(st, inp, encodeTable) ==
    LET x == BitOr(st.remain, Shl(inp, 3))
        s1 == Emit(st, encodeTable, BitAnd(x, 31))
        s2 == Emit(s1, encodeTable, BitAnd(Shr(x, 5), 31))
    IN  [s2 EXCEPT !.remain = Shr(x, 10)]

\* variant of case 2 that keeps one bit of the carry too many: remain holds
\* five bits where four are pending
EncodeInversedCase2Shift4(st, inp, encodeTable) ==
    LET x == BitOr(st.remain, Shl(inp, 1))
        s1 == Emit(st, encodeTable, BitAnd(x, 31))
    IN  [s1 EXCEPT !.remain = Shr(x, 4)]

\* case 2 of the OrderInversed switch
EncodeInversedCase2(st, inp, encodeTable) ==
    LET x == BitOr(st.remain, Shl(inp, 1))
        s1 == Emit(st, encodeTable, BitAnd(x, 31))
    IN  [s1 EXCEPT !.remain = Shr(x, 5)]

\* variant of case 3 that places the input byte above a 3-bit carry, not
\* the 4-bit carry case 2 leaves
EncodeInversedCase3Shift3(st, inp, encodeTable) ==
    LET x == BitOr(st.remain, Shl(inp, 3))
        s1 == Emit(st, encodeTable, BitAnd(x, 31))
        s2 == Emit(s1, encodeTable, BitAnd(Shr(x, 5), 31))
    IN  [s2 EXCEPT !.remain = BitAnd(Shr(x, 10), 3)]

\* case 3 of the OrderInversed switch
EncodeInversedCase3(st, inp, encodeTable) ==
    LET x == BitOr(st.remain, Shl(inp, 4))
        s1 == Emit(st, encodeTable, BitAnd(x, 31))
        s2 == Emit(s1, encodeTable, BitAnd(Shr(x, 5), 31))
    IN  [s2 EXCEPT !.remain = BitAnd(Shr(x, 10), 3)]

\* case 4 of the OrderInversed switch
EncodeInversedCase4(st, inp, encodeTable) ==
    LET x == BitOr(st.remain, Shl(inp, 2))
        s1 == Emit(st, encodeTable, BitAnd(x, 31))
        s2 == Emit(s1, encodeTable, BitAnd(Shr(x, 5), 31))
    IN  [s2 EXCEPT !.remain = -1]

\* one iteration of the OrderInversed loop: switch i % 5
EncodeInversedStep(st, i, inp, encodeTable) ==
    CASE i % 5 = 0 -> EncodeInversedCase0(st, inp, encodeTable)
      [] i % 5 = 1 -> EncodeInversedCase1(st, inp, encodeTable)
      [] i % 5 = 2 -> EncodeInversedCase2(st, inp, encodeTable)
      [] i % 5 = 3 -> EncodeInversedCase3(st, inp, encodeTable)
      [] i % 5 = 4 -> EncodeInversedCase4(st, inp, encodeTable)

\* variant of case 0 that emits the low five bits of the byte, as the
\* OrderInversed branch does
EncodeNormalCase0LowBits(st, inp, encodeTable) ==
    LET x == inp
        s1 == Emit(st, encodeTable, BitAnd(x, 31))
    IN  [s1 EXCEPT !.remain = Shl(BitAnd(inp, 7), 2)]

\* case 0 of the standard switch
EncodeNormalCase0(st, inp, encodeTable) ==
    LET x == Shr(inp, 3)
        s1 == Emit(st, encodeTable, BitAnd(x, 31))
    IN  [s1 EXCEPT !.remain = Shl(BitAnd(inp, 7), 2)]

\* case 1 of the standard switch
EncodeNormalCase1(st, inp, encodeTable) ==
    LET x == BitOr(Shl(st.remain, 6), inp)
        s1 == Emit(st, encodeTable, BitAnd(Shr(x, 6), 31))
        s2 == Emit(s1, encodeTable, BitAnd(Shr(x, 1), 31))
    IN  [s2 EXCEPT !.remain = Shl(BitAnd(x, 1), 4)]

\* variant of case 2 that carries the four low bits without moving them up
\* to the top of the next group
EncodeNormalCase2NoShift(st, inp, encodeTable) ==
    LET x == BitOr(Shl(st.remain, 4), inp)
        s1 == Emit(st, encodeTable, BitAnd(Shr(x, 4), 31))
    IN  [s1 EXCEPT !.remain = BitAnd(x, 15)]

\* case 2 of the standard switch
EncodeNormalCase2(st, inp, encodeTable) ==
    LET x == BitOr(Shl(st.remain, 4), inp)
        s1 == Emit(st, encodeTable, BitAnd(Shr(x, 4), 31))
    IN  [s1 EXCEPT !.remain = Shl(BitAnd(x, 15), 1)]

\* case 3 of the standard switch
EncodeNormalCase3(st, inp, encodeTable) ==
    LET x == BitOr(Shl(st.remain, 7), inp)
        s1 == Emit(st, encodeTable, BitAnd(Shr(x, 7), 31))
        s2 == Emit(s1, encodeTable, BitAnd(Shr(x, 2), 31))
    IN  [s2 EXCEPT !.remain = Shl(BitAnd(x, 3), 3)]

\* variant of case 4 that emits the low group first, as the OrderInversed
\* branch does
EncodeNormalCase4LowFirst(st, inp, encodeTable) ==
    LET x == BitOr(Shl(st.remain, 5), inp)
        s1 == Emit(st, encodeTable, BitAnd(x, 31))
        s2 == Emit(s1, encodeTable, BitAnd(Shr(x, 5), 31))
    IN  [s2 EXCEPT !.remain = -1]

\* case 4 of the standard switch
EncodeNormalCase4(st, inp, encodeTable) ==
    LET x == BitOr(Shl(st.remain, 5), inp)
        s1 == Emit(st, encodeTable, BitAnd(Shr(x, 5), 31))
        s2 == Emit(s1, encodeTable, BitAnd(x, 31))
    IN  [s2 EXCEPT !.remain = -1]

\* one iteration of the standard loop: switch i % 5
EncodeNormalStep(st, i, inp, encodeTable) ==
    CASE i % 5 = 0 -> EncodeNormalCase0(st, inp, encodeTable)
      [] i % 5 = 1 -> EncodeNormalCase1(st, inp, encodeTable)
      [] i % 5 = 2 -> EncodeNormalCase2(st, inp, encodeTable)
      [] i % 5 = 3 -> EncodeNormalCase3(st, inp, encodeTable)
      [] i % 5 = 4 -> EncodeNormalCase4(st, inp, encodeTable)

\* for i := 0; i < len(input); i++ { ... } of the branch the order selects
RECURSIVE EncodeLoop(_, _, _, _)
EncodeLoop(input, i, st, alphabet) ==
    IF i >= Len(input) \/ st.panic THEN st
    ELSE EncodeLoop(input, i + 1,
                    IF alphabet.encodeOrder = OrderInversed
                    THEN EncodeInversedStep(st, i, input[i + 1], alphabet.encodeSymbols)
                    ELSE EncodeNormalStep(st, i, input[i + 1], alphabet.encodeSymbols),
                    alphabet)

\* variant of the final emit that takes a zero carry for "nothing pending"
EncodeFinalPositive(st, encodeTable) ==
    IF st.panic THEN st
    ELSE IF st.remain > 0 THEN Emit(st, encodeTable, BitAnd(st.remain, 31))
    ELSE st

\* if remain >= 0 { output[o] = encodeTable[remain&0x1F]; o++ }
EncodeFinal(st, encodeTable) ==
    IF st.panic THEN st
    ELSE IF st.remain >= 0 THEN Emit(st, encodeTable, BitAnd(st.remain, 31))
    ELSE st

\* the call's result: the count returned, the buffer as left, and panic
EncodeToSlice(input, output, alphabet) ==
    LET st0 == [output |-> output, o |-> 0, remain |-> -1, panic |-> FALSE]
        st == EncodeFinal(EncodeLoop(input, 0, st0, alphabet), alphabet.encodeSymbols)
    IN  [n |-> st.o, output |-> st.output, panic |-> st.panic]

\* EncodeAlphabet: the string returned (and the pieces it is cut from)
EncodeAlphabet(input, alphabet) ==
    LET encodedSize == EncodedLen(Len(input))
        buf == MakeBuf(encodedSize)
        r == EncodeToSlice(input, buf, alphabet)
    IN  [str |-> IF r.panic THEN << >> ELSE Slice(r.output, r.n),
         encLen |-> r.n, bufLen |-> encodedSize, panic |-> r.panic]

(***************************************************************************)
(* DecodeAlphabetToSlice.  The locals of one call are the record           *)
(* [buffer, o, acc, processedBits, err, panic].                            *)
(***************************************************************************)
DecodeError(msg, offset, byte) == [Msg |-> msg, Offset |-> offset, Byte |-> byte]

\* buffer[o] = byte(v); o++
EmitByte(st, v) ==
    IF st.panic \/ st.o \notin DOMAIN st.buffer
    THEN [st EXCEPT !.panic = TRUE]
    ELSE [st EXCEPT !.buffer[st.o] = v % 256, !.o = st.o + 1]

\* one iteration of the OrderInversed range loop over (i, c)
DecodeInversedStep(st, i, c, decodeBytes) ==
    LET s1 == IF st.processedBits >= 8
              THEN [EmitByte(st, BitAnd(st.acc, 255))
                        EXCEPT !.processedBits = st.processedBits - 8,
                               !.acc = Shr(st.acc, 8)]
              ELSE st
        decoded == decodeBytes[c]
    IN  IF s1.panic THEN s1
        ELSE IF decoded = InvalidByte
        THEN [s1 EXCEPT !.err = Some(DecodeError("invalid byte", i, c))]
        ELSE [s1 EXCEPT !.acc = BitOr(Shl(decoded, s1.processedBits), s1.acc),
                        !.processedBits = s1.processedBits + 5]

\* variant of the final flush that emits only a whole pending byte
DecodeInversedFinalWholeByte(st) ==
    IF st.panic \/ st.err # Nil THEN st
    ELSE IF st.processedBits >= 8 THEN EmitByte(st, BitAnd(st.acc, 255))
    ELSE st

\* if processedBits > 0 { buffer[o] = byte(acc & 0xFF); o++ }
DecodeInversedFinal(st) ==
    IF st.panic \/ st.err # Nil THEN st
    ELSE IF st.processedBits > 0 THEN EmitByte(st, BitAnd(st.acc, 255))
    ELSE st

\* one iteration of the standard range loop over (i, c)
DecodeNormalStep(st, i, c, decodeBytes) ==
    LET decoded == decodeBytes[c] IN
    IF decoded = InvalidByte
    THEN [st EXCEPT !.err = Some(DecodeError("invalid byte", i, c))]
    ELSE LET acc1 == BitOr(Shl(st.acc, 5), decoded)
             bits1 == st.processedBits + 5
         IN  IF bits1 >= 8
             THEN LET bits2 == bits1 - 8 IN
                  [EmitByte(st, BitAnd(Shr(acc1, bits2), 255))
                       EXCEPT !.processedBits = bits2,
                              !.acc = BitAnd(acc1, Shl(1, bits2) - 1)]
             ELSE [st EXCEPT !.acc = acc1, !.processedBits = bits1]

\* for i, c := range input { ... } of the branch the order selects; a
\* return inside the loop (err) or a panic ends it
RECURSIVE DecodeLoop(_, _, _, _)
DecodeLoop(input, i, st, alphabet) ==
    IF i >= Len(input) \/ st.panic \/ st.err # Nil THEN st
    ELSE DecodeLoop(input, i + 1,
                    IF alphabet.encodeOrder = OrderInversed
                    THEN DecodeInversedStep(st, i, input[i + 1], alphabet.decodeBytes)
                    ELSE DecodeNormalStep(st, i, input[i + 1], alphabet.decodeBytes),
                    alphabet)

\* variant that returns the bytes written so far along with the error
DecodeAlphabetToSlicePartial(input, buffer, alphabet) ==
    LET st0 == [buffer |-> buffer, o |-> 0, acc |-> 0, processedBits |-> 0,
                err |-> Nil, panic |-> FALSE]
        s1 == DecodeLoop(input, 0, st0, alphabet)
        st == IF alphabet.encodeOrder = OrderInversed THEN DecodeInversedFinal(s1) ELSE s1
    IN  [n |-> st.o, err |-> st.err,
         buffer |-> st.buffer, written |-> st.o, panic |-> st.panic]

\* the call's result: (count, error), the buffer as left, and panic
DecodeAlphabetToSlice(input, buffer, alphabet) ==
    LET st0 == [buffer |-> buffer, o |-> 0, acc |-> 0, processedBits |-> 0,
                err |-> Nil, panic |-> FALSE]
        s1 == DecodeLoop(input, 0, st0, alphabet)
        st == IF alphabet.encodeOrder = OrderInversed THEN DecodeInversedFinal(s1) ELSE s1
    IN  [n |-> IF st.err # Nil THEN 0 ELSE st.o, err |-> st.err,
         buffer |-> st.buffer, written |-> st.o, panic |-> st.panic]

\* DecodeAlphabet: (nil, err) or (buffer[:actualLen], nil)
DecodeAlphabet(input, alphabet) ==
    LET bufLen == DecodedLen(Len(input))
        buffer == MakeBuf(bufLen)
        r == DecodeAlphabetToSlice(input, buffer, alphabet)
    IN  IF r.panic
        THEN [isNil |-> TRUE, bytes |-> << >>, err |-> Nil, n |-> 0,
              written |-> r.written, bufLen |-> bufLen, panic |-> TRUE]
        ELSE IF r.err # Nil
        THEN [isNil |-> TRUE, bytes |-> << >>, err |-> r.err, n |-> r.n,
              written |-> r.written, bufLen |-> bufLen, panic |-> FALSE]
        ELSE [isNil |-> FALSE, bytes |-> Slice(r.buffer, r.n), err |-> Nil, n |-> r.n,
              written |-> r.written, bufLen |-> bufLen, panic |-> FALSE]


(***************************************************************************)
(* Inputs the calls are made with                                          *)
(***************************************************************************)
\* longest byte sequence drawn from ByteSample
MaxLen == 6

\* longest sequence in which one byte sweeps 0..255
SweepLen == 5

\* longest string of valid symbols handed to decode
MaxSymLen == 9

\* longest string mixing valid and invalid bytes freely
MaxMixedLen == 3

\* most valid symbols before / after a single invalid byte
MaxPad == 9

SeqsUpTo(S, n) == UNION {[1 .. k -> S] : k \in 0 .. n}

ByteSample == {0, 97, 255}

\* one byte sweeping 0..255 as the last or the last but one byte of an
\* otherwise all-0x00 or all-0xff input, so that it passes through every case
\* of the switch both followed by another byte and followed by the final emit
SweepInputs ==
    {[k \in 1 .. n |-> IF k = n - back THEN v ELSE bg] :
        <<n, back, v, bg>> \in {q \in (1 .. SweepLen) \X {0, 1} \X (0 .. 255) \X {0, 255} :
                                  q[2] < q[1]}}

\* the inputs of the tests and of the README
Str_hello == << 104, 101, 108, 108, 111 >>

Str_a == << 97 >>

Str_test123 == << 116, 101, 115, 116, 49, 50, 51 >>

Str_hello_world == << 104, 101, 108, 108, 111, 32, 119, 111, 114, 108, 100 >>

Str_test == << 116, 101, 115, 116 >>

Str_binary == << 98, 105, 110, 97, 114, 121 >>

VectorInputs ==
    {<< >>, Str_hello, Str_a, Str_test123, Str_hello_world, Str_test, Str_binary,
     << 1, 2, 3, 4, 5, 6 >>, << 255, 254, 253, 252, 251 >>,
     << 0, 17, 34, 51, 68, 85, 102, 119, 136, 153, 170, 187, 204, 221, 238, 255 >>}

ByteInputs == SeqsUpTo(ByteSample, MaxLen) \cup SweepInputs \cup VectorInputs

\* the 32 symbols of an alphabet, read from its forward table
Symbols(a) == {a.encodeSymbols[i] : i \in 0 .. (AlphabetSize - 1)}

ValidSample(a) == {a.encodeSymbols[i] : i \in {0, 21, 31}}

\* '\x00', '@', 'A', 'a', 0xff where they are no symbol of a
InvalidSample(a) == {0, 64, 65, 97, 255} \ Symbols(a)

Repeat(c, n) == [k \in 1 .. n |-> c]

SymInputs(a) ==
    SeqsUpTo({a.encodeSymbols[0], a.encodeSymbols[21]}, MaxSymLen)
      \cup SeqsUpTo(ValidSample(a) \cup InvalidSample(a), MaxMixedLen)
      \cup {Repeat(c, j) \o << x >> \o Repeat(a.encodeSymbols[31], k) :
              <<c, j, x, k>> \in ValidSample(a) \X (0 .. MaxPad) \X InvalidSample(a)
                                   \X (0 .. MaxPad)}

\* the ZBASE32 symbol string with OrderNormal, as NewAlphabet builds it
ZBASE32Normal == NewAlphabet(ZBASE32String, OrderNormal).alphabet[1]

Alphabets == {ZBASE32, RFC4648, BECH32, ZBASE32Normal}

(***************************************************************************)
(* State                                                                   *)
(***************************************************************************)
VARIABLES
    pc,        \* what the caller has done: "new", "built", "ready", "encoded", "roundtrip", "decoded"
    alphabet,  \* the *Alphabet in use or returned: Some(record) or Nil
    newArgs,   \* the (string, order) NewAlphabet was called with
    newErr,    \* the error NewAlphabet returned
    input,     \* the bytes handed to the encode or decode call
    enc,       \* what EncodeAlphabet returned
    dec,       \* what DecodeAlphabet returned
    calls      \* the EncodeToSlice / DecodeAlphabetToSlice calls in flight, by goroutine

vars == <<pc, alphabet, newArgs, newErr, input, enc, dec, calls>>

NoEnc == [str |-> << >>, encLen |-> 0, bufLen |-> 0, panic |-> FALSE]

NoDec == [isNil |-> TRUE, bytes |-> << >>, err |-> Nil, n |-> 0,
          written |-> 0, bufLen |-> 0, panic |-> FALSE]

NoArgs == [alphabet |-> << >>, order |-> OrderNormal]

(***************************************************************************)
(* Spec: a caller holding one of the alphabets encodes a byte sequence and *)
(* decodes the result, or decodes a string.                                *)
(***************************************************************************)
Init ==
    /\ pc = "ready"
    /\ alphabet \in {Some(a) : a \in Alphabets}
    /\ newArgs = NoArgs
    /\ newErr = Nil
    /\ input = << >>
    /\ enc = NoEnc
    /\ dec = NoDec
    /\ calls = << >>

\* EncodeAlphabet(input, alphabet)
Encode ==
    /\ pc = "ready"
    /\ \E b \in ByteInputs :
          /\ input' = b
          /\ enc' = EncodeAlphabet(b, alphabet[1])
    /\ pc' = "encoded"
    /\ UNCHANGED <<alphabet, newArgs, newErr, dec, calls>>

\* DecodeAlphabet([]byte(encoded), alphabet) on the string Encode returned
DecodeEncoded ==
    /\ pc = "encoded"
    /\ ~enc.panic
    /\ dec' = DecodeAlphabet(enc.str, alphabet[1])
    /\ pc' = "roundtrip"
    /\ UNCHANGED <<alphabet, newArgs, newErr, input, enc, calls>>

\* DecodeAlphabet(input, alphabet) on a string of the caller's
Decode ==
    /\ pc = "ready"
    /\ \E s \in SymInputs(alphabet[1]) :
          /\ input' = s
          /\ dec' = DecodeAlphabet(s, alphabet[1])
    /\ pc' = "decoded"
    /\ UNCHANGED <<alphabet, newArgs, newErr, enc, calls>>

Next == Encode \/ DecodeEncoded \/ Decode

Spec == Init /\ [][Next]_vars


(***************************************************************************)
(* SpecAlphabet: the package's alphabets come into being, either by        *)
(* NewAlphabet on a caller's string or as one of the predefined variables. *)
(***************************************************************************)
\* most bytes by which a string handed to NewAlphabet exceeds 32
MaxExtra == 1

ReplaceAt(s, p, v) == [s EXCEPT ![p] = v]

\* "0123456789ABCDEFGHIJKLMNOPQRSTUV", the custom alphabet of the README
CustomString ==
    << 48, 49, 50, 51, 52, 53, 54, 55, 56, 57, 65, 66, 67, 68, 69, 70,
       71, 72, 73, 74, 75, 76, 77, 78, 79, 80, 81, 82, 83, 84, 85, 86 >>

\* the strings TestNewAlphabet expects to be refused
Str_tooshort == << 116, 111, 111, 115, 104, 111, 114, 116 >>

Str_duplicate ==
    << 97, 97, 99, 100, 101, 102, 103, 104, 105, 106, 107, 108, 109, 110, 111, 112,
       113, 114, 115, 116, 117, 118, 119, 120, 121, 122, 50, 51, 52, 53, 54, 55 >>

Str_unprintable ==
    << 97, 98, 99, 100, 101, 102, 103, 104, 105, 106, 107, 108, 109, 110, 111, 112,
       113, 114, 115, 116, 117, 118, 119, 120, 121, 122, 50, 51, 52, 53, 54, 1 >>

BaseStrings == {ZBASE32String, RFC4648String, BECH32String, CustomString}

\* bytes written over a position: around both ends of the printable range,
\* a fresh printable byte, and 0x00 / 0xff
ReplaceSample == {0, 1, 31, 32, 33, 64, 125, 126, 127, 128, 255}

AlphabetSpecs ==
    BaseStrings
      \cup {Str_tooshort, Str_duplicate, Str_unprintable}
      \cup {ReplaceAt(s, p, v) : <<s, p, v>> \in BaseStrings \X (1 .. AlphabetSize) \X ReplaceSample}
      \cup {ReplaceAt(s, p, s[q]) :
              <<s, p, q>> \in {ZBASE32String} \X (1 .. AlphabetSize) \X (1 .. AlphabetSize)}
      \cup {ReplaceAt(ReplaceAt(s, p, v), q, w) :
              <<s, p, v, q, w>> \in {CustomString} \X (1 .. (AlphabetSize - 1)) \X {1, 64}
                                      \X {AlphabetSize - 1, AlphabetSize} \X {1, 64, 127}}
      \cup {SubSeq(s, 1, k) : <<s, k>> \in BaseStrings \X {0, 1, 8, 31}}
      \cup {s \o Repeat(v, k) :
              <<s, v, k>> \in BaseStrings \X {1, 64, 121} \X (1 .. MaxExtra)}

InitAlphabet ==
    /\ pc = "new"
    /\ alphabet = Nil
    /\ newArgs = NoArgs
    /\ newErr = Nil
    /\ input = << >>
    /\ enc = NoEnc
    /\ dec = NoDec
    /\ calls = << >>

\* alphabet, err := NewAlphabet(s, order)
NewAlphabetCall ==
    /\ pc = "new"
    /\ \E s \in AlphabetSpecs, order \in {OrderNormal, OrderInversed} :
          LET r == NewAlphabet(s, order) IN
          /\ newArgs' = [alphabet |-> s, order |-> order]
          /\ alphabet' = r.alphabet
          /\ newErr' = r.err
    /\ pc' = "built"
    /\ UNCHANGED <<input, enc, dec, calls>>

\* the package-level variables ZBASE32, RFC4648, BECH32 as initialised
LoadPredefined ==
    /\ pc = "new"
    /\ \E a \in {ZBASE32, RFC4648, BECH32} : alphabet' = Some(a)
    /\ pc' = "predefined"
    /\ UNCHANGED <<newArgs, newErr, input, enc, dec, calls>>

NextAlphabet == NewAlphabetCall \/ LoadPredefined

SpecAlphabet == InitAlphabet /\ [][NextAlphabet]_vars


(***************************************************************************)
(* SpecConcurrent: goroutines call EncodeToSlice and DecodeAlphabetToSlice *)
(* with one shared *Alphabet, each on a buffer of its own.  A call is a    *)
(* record of its arguments and locals; one step is the entry of a call,    *)
(* one iteration of its loop, or its return, and the steps of different    *)
(* goroutines interleave freely.                                           *)
(***************************************************************************)
\* the goroutines calling at the same time
NumCallers == 2

\* longest input of a concurrent call
MaxConcLen == 2

Callers == 1 .. NumCallers

Prefixes(s, n) == {SubSeq(s, 1, k) : k \in 0 .. n}

\* "te", "tes", ... : the leading bytes of "test123"
ConcByteInputs == Prefixes(Str_test123, MaxConcLen)

\* leading symbols of a valid string, and the same with '@' for the last one
ConcSymInputs(a) ==
    LET valid == Prefixes([k \in 1 .. (MaxConcLen + 1) |->
                              a.encodeSymbols[(21 + 10 * (k - 1)) % AlphabetSize]],
                          MaxConcLen)
    IN  valid \cup {SubSeq(s, 1, Len(s) - 1) \o << 64 >> : s \in valid \ {<< >>}}

\* the alphabet the goroutines share: one of each order
ConcAlphabets == {ZBASE32, RFC4648}

\* a goroutine that has not called yet
IdleCall ==
    [op |-> "none", at |-> "idle", input |-> << >>, i |-> 0, order |-> OrderNormal,
     encodeTable |-> << >>, st |-> << >>, ret |-> << >>, overlap |-> FALSE]

\* EncodeToSlice up to the loop: encodeTable is a copy of the alphabet's
\* array, remain and o are fresh locals, the order is read once
EncodeEnter(b, output, a) ==
    [op |-> "encode", at |-> "loop", input |-> b, i |-> 0, order |-> a.encodeOrder,
     encodeTable |-> a.encodeSymbols,
     st |-> [output |-> output, o |-> 0, remain |-> -1, panic |-> FALSE],
     ret |-> << >>, overlap |-> FALSE]

\* variant in which remain is a package-level variable: the write of one
\* call is seen by every other encode call in its loop
EncodeIterateSharedRemain(cs, p) ==
    LET c == cs[p]
        s2 == IF c.order = OrderInversed
              THEN EncodeInversedStep(c.st, c.i, c.input[c.i + 1], c.encodeTable)
              ELSE EncodeNormalStep(c.st, c.i, c.input[c.i + 1], c.encodeTable)
    IN  [q \in DOMAIN cs |->
            IF q = p THEN [c EXCEPT !.st = s2, !.i = c.i + 1]
            ELSE IF cs[q].op = "encode" /\ cs[q].at = "loop"
            THEN [cs[q] EXCEPT !.st.remain = s2.remain]
            ELSE cs[q]]

\* one iteration of the encode loop of goroutine p: it reads its input and
\* its copy of the table, and writes its own output, o and remain
EncodeIterate(cs, p) ==
    LET c == cs[p]
        s2 == IF c.order = OrderInversed
              THEN EncodeInversedStep(c.st, c.i, c.input[c.i + 1], c.encodeTable)
              ELSE EncodeNormalStep(c.st, c.i, c.input[c.i + 1], c.encodeTable)
    IN  [cs EXCEPT ![p] = [c EXCEPT !.st = s2, !.i = c.i + 1]]

\* the final emit and return o
EncodeReturn(cs, p) ==
    LET c == cs[p]
        s2 == EncodeFinal(c.st, c.encodeTable)
    IN  [cs EXCEPT ![p] = [c EXCEPT !.st = s2, !.at = "returned",
                                    !.ret = [n |-> s2.o, output |-> s2.output,
                                             panic |-> s2.panic]]]

\* DecodeAlphabetToSlice up to the loop: processedBits, acc and o are fresh
\* locals, the order is read once
DecodeEnter(s, buffer, a) ==
    [op |-> "decode", at |-> "loop", input |-> s, i |-> 0, order |-> a.encodeOrder,
     encodeTable |-> << >>,
     st |-> [buffer |-> buffer, o |-> 0, acc |-> 0, processedBits |-> 0,
             err |-> Nil, panic |-> FALSE],
     ret |-> << >>, overlap |-> FALSE]

\* what a decode call returns from locals st
DecodeResult(st) ==
    [n |-> IF st.err # Nil THEN 0 ELSE st.o, err |-> st.err,
     buffer |-> st.buffer, written |-> st.o, panic |-> st.panic]

\* one iteration of the decode loop of goroutine p: it reads
\* alphabet.decodeBytes through the shared pointer and writes its own
\* buffer, o, acc and processedBits; an invalid byte returns from the loop
DecodeIterate(cs, p, a) ==
    LET c == cs[p]
        s2 == IF c.order = OrderInversed
              THEN DecodeInversedStep(c.st, c.i, c.input[c.i + 1], a.decodeBytes)
              ELSE DecodeNormalStep(c.st, c.i, c.input[c.i + 1], a.decodeBytes)
    IN  [cs EXCEPT ![p] =
            IF s2.err # Nil
            THEN [c EXCEPT !.st = s2, !.at = "returned", !.ret = DecodeResult(s2)]
            ELSE [c EXCEPT !.st = s2, !.i = c.i + 1]]

\* the final flush of the OrderInversed branch and return o, nil
DecodeReturn(cs, p) ==
    LET c == cs[p]
        s2 == IF c.order = OrderInversed THEN DecodeInversedFinal(c.st) ELSE c.st
    IN  [cs EXCEPT ![p] = [c EXCEPT !.st = s2, !.at = "returned",
                                    !.ret = DecodeResult(s2)]]

\* another goroutine is between the entry and the return of its call, and
\* has run at least one iteration
OthersInFlight(cs, p) ==
    \E q \in DOMAIN cs : q # p /\ cs[q].at = "loop" /\ cs[q].i > 0

\* the step of p, remembered as overlapping when it ran beside another call
Overlapping(cs2, p) ==
    [cs2 EXCEPT ![p].overlap = @ \/ OthersInFlight(calls, p)]

InitConcurrent ==
    /\ pc = "concurrent"
    /\ alphabet \in {Some(a) : a \in ConcAlphabets}
    /\ newArgs = NoArgs
    /\ newErr = Nil
    /\ input = << >>
    /\ enc = NoEnc
    /\ dec = NoDec
    /\ calls = [p \in Callers |-> IdleCall]

\* go EncodeToSlice(b, make([]byte, EncodedLen(len(b))), alphabet)
CallEncodeToSlice(p) ==
    /\ calls[p].at = "idle"
    /\ \E b \in ConcByteInputs :
          calls' = [calls EXCEPT ![p] =
                       EncodeEnter(b, MakeBuf(EncodedLen(Len(b))), alphabet[1])]
    /\ UNCHANGED <<pc, alphabet, newArgs, newErr, input, enc, dec>>

EncodeIteration(p) ==
    /\ calls[p].op = "encode" /\ calls[p].at = "loop"
    /\ calls[p].i < Len(calls[p].input) /\ ~calls[p].st.panic
    /\ calls' = Overlapping(EncodeIterate(calls, p), p)
    /\ UNCHANGED <<pc, alphabet, newArgs, newErr, input, enc, dec>>

EncodeReturns(p) ==
    /\ calls[p].op = "encode" /\ calls[p].at = "loop"
    /\ calls[p].i >= Len(calls[p].input) \/ calls[p].st.panic
    /\ calls' = Overlapping(EncodeReturn(calls, p), p)
    /\ UNCHANGED <<pc, alphabet, newArgs, newErr, input, enc, dec>>

\* go DecodeAlphabetToSlice(s, make([]byte, DecodedLen(len(s))), alphabet)
CallDecodeAlphabetToSlice(p) ==
    /\ calls[p].at = "idle"
    /\ \E s \in ConcSymInputs(alphabet[1]) :
          calls' = [calls EXCEPT ![p] =
                       DecodeEnter(s, MakeBuf(DecodedLen(Len(s))), alphabet[1])]
    /\ UNCHANGED <<pc, alphabet, newArgs, newErr, input, enc, dec>>

DecodeIteration(p) ==
    /\ calls[p].op = "decode" /\ calls[p].at = "loop"
    /\ calls[p].i < Len(calls[p].input) /\ ~calls[p].st.panic
    /\ calls' = Overlapping(DecodeIterate(calls, p, alphabet[1]), p)
    /\ UNCHANGED <<pc, alphabet, newArgs, newErr, input, enc, dec>>

DecodeReturns(p) ==
    /\ calls[p].op = "decode" /\ calls[p].at = "loop"
    /\ calls[p].i >= Len(calls[p].input) \/ calls[p].st.panic
    /\ calls' = Overlapping(DecodeReturn(calls, p), p)
    /\ UNCHANGED <<pc, alphabet, newArgs, newErr, input, enc, dec>>

NextConcurrent ==
    \E p \in Callers :
        \/ CallEncodeToSlice(p)
        \/ EncodeIteration(p)
        \/ EncodeReturns(p)
        \/ CallDecodeAlphabetToSlice(p)
        \/ DecodeIteration(p)
        \/ DecodeReturns(p)

SpecConcurrent == InitConcurrent /\ [][NextConcurrent]_vars


(***************************************************************************)
(* Properties                                                              *)
(***************************************************************************)
Predefined == {ZBASE32, RFC4648, BECH32}

\* the Go index of the first byte of s that is no symbol of a, or -1
FirstInvalid(s, a) ==
    LET syms == Symbols(a) IN
    IF \E k \in 1 .. Len(s) : s[k] \notin syms
    THEN (CHOOSE k \in 1 .. Len(s) :
            /\ s[k] \notin syms
            /\ \A j \in 1 .. (k - 1) : s[j] \in syms) - 1
    ELSE -1

\* C1: round trip.  For each predefined alphabet and every input b, encoding
\* never runs out of its buffer, and DecodeAlphabet(EncodeAlphabet(b, A), A)
\* returns no error and exactly b.
C1_RoundTrip ==
    (pc \in {"encoded", "roundtrip"} /\ alphabet[1] \in Predefined) =>
        /\ ~enc.panic
        /\ pc = "roundtrip" =>
              /\ ~dec.panic
              /\ dec.err = Nil
              /\ ~dec.isNil
              /\ dec.bytes = input

\* a round trip of six bytes (past one 5-byte group, a partial group pending)
\* under the Inverse-order alphabet has returned the input
C1_Witness ==
    /\ pc = "roundtrip"
    /\ alphabet[1] = ZBASE32
    /\ Len(input) = 6
    /\ input[6] = 255
    /\ Len(enc.str) = 10
    /\ dec.err = Nil
    /\ dec.bytes = input

\* C2: invalid symbol rejection.  Decoding a string that holds a byte outside
\* the alphabet's 32 symbols returns DecodeError{"invalid byte", Offset, Byte}
\* with Offset the index of the first such byte and Byte its value, whatever
\* surrounds it, in both orders.
C2_InvalidSymbol ==
    (pc = "decoded" /\ FirstInvalid(input, alphabet[1]) >= 0) =>
        LET k == FirstInvalid(input, alphabet[1]) IN
        /\ ~dec.panic
        /\ dec.err = Some([Msg |-> "invalid byte", Offset |-> k, Byte |-> input[k + 1]])

\* a string with valid symbols before the first invalid byte and a second,
\* different invalid byte after it was refused at the first
C2_Witness ==
    /\ pc = "decoded"
    /\ Len(input) = 3
    /\ input[1] \in Symbols(alphabet[1])
    /\ input[2] \notin Symbols(alphabet[1])
    /\ input[3] \notin Symbols(alphabet[1])
    /\ input[3] # input[2]
    /\ dec.err = Some([Msg |-> "invalid byte", Offset |-> 1, Byte |-> input[2]])

\* C3: length bounds.  EncodeToSlice returns a count <= EncodedLen(len(b)) and
\* writes only below index EncodedLen(len(b)); for a string s of valid symbols
\* DecodeAlphabetToSlice returns a count <= DecodedLen(len(s)) and writes only
\* below index DecodedLen(len(s)), in both orders.
C3_LengthBounds ==
    /\ pc \in {"encoded", "roundtrip"} =>
          /\ enc.bufLen = EncodedLen(Len(input))
          /\ ~enc.panic
          /\ enc.encLen <= EncodedLen(Len(input))
    /\ (pc = "decoded" /\ FirstInvalid(input, alphabet[1]) = -1) =>
          /\ dec.bufLen = DecodedLen(Len(input))
          /\ ~dec.panic
          /\ dec.written <= DecodedLen(Len(input))
          /\ dec.n <= DecodedLen(Len(input))
    /\ pc = "roundtrip" =>
          /\ dec.bufLen = DecodedLen(Len(enc.str))
          /\ ~dec.panic
          /\ dec.written <= DecodedLen(Len(enc.str))
          /\ dec.n <= DecodedLen(Len(enc.str))

\* nine valid symbols were decoded in Inverse order and filled the buffer of
\* DecodedLen(9) = 6 bytes to its last index
C3_Witness ==
    /\ pc = "decoded"
    /\ alphabet[1].encodeOrder = OrderInversed
    /\ Len(input) = 9
    /\ FirstInvalid(input, alphabet[1]) = -1
    /\ dec.n = 6
    /\ dec.n = DecodedLen(Len(input))


\* what the claim calls a refusable string: not 32 bytes long, or a byte
\* outside 0x20..0x7E, or a byte occurring twice
Refusable(s) ==
    \/ Len(s) # 32
    \/ \E i \in 1 .. Len(s) : s[i] < 32 \/ s[i] > 126
    \/ \E i, j \in 1 .. Len(s) : i # j /\ s[i] = s[j]

\* C4: NewAlphabet(spec, order) returns an error and no alphabet if and only
\* if len(spec) # 32, or a byte of spec is outside 0x20..0x7E, or a byte
\* repeats; otherwise it returns no error and an alphabet whose forward table
\* is spec positionally and whose order is the given order.
C4_NewAlphabetValidation ==
    pc = "built" =>
        IF Refusable(newArgs.alphabet)
        THEN newErr # Nil /\ alphabet = Nil
        ELSE /\ newErr = Nil
             /\ alphabet # Nil
             /\ alphabet[1].encodeSymbols = Arr(newArgs.alphabet)
             /\ alphabet[1].encodeOrder = newArgs.order

\* NewAlphabet has accepted a 32-byte string holding ' ' and '~', the two
\* ends of the printable range, with the order asked for
C4_Witness ==
    /\ pc = "built"
    /\ newErr = Nil
    /\ alphabet # Nil
    /\ newArgs.order = OrderInversed
    /\ alphabet[1].encodeOrder = OrderInversed
    /\ \E i \in 1 .. 32 : newArgs.alphabet[i] = 32 /\ alphabet[1].encodeSymbols[i - 1] = 32

\* C5: alphabet bijectivity.  For every alphabet NewAlphabet returns and each
\* predefined alphabet, decodeBytes[encodeSymbols[i]] = i for all i in 0..31
\* and decodeBytes[x] = 0xff for every byte x that is none of the 32 symbols.
C5_Bijective ==
    alphabet # Nil =>
        LET a == alphabet[1] IN
        /\ \A i \in 0 .. 31 : a.decodeBytes[a.encodeSymbols[i]] = i
        /\ \A x \in 0 .. 255 :
              (\A i \in 0 .. 31 : a.encodeSymbols[i] # x) => a.decodeBytes[x] = 255

\* the predefined BECH32 alphabet, whose reverse table comes from
\* initDecodeTable, is in use and maps 'l' back to 31
C5_Witness ==
    /\ pc = "predefined"
    /\ alphabet # Nil
    /\ alphabet[1].encodeSymbols = Arr(BECH32Symbols)
    /\ alphabet[1].decodeBytes[108] = 31
    /\ alphabet[1].decodeBytes[98] = 255


\* a is ZBASE32 or the Normal-order alphabet built from the same string
HasZBASE32Symbols(a) == a.encodeSymbols = Arr(ZBASE32Symbols)

\* the alphabet with the same 32 symbols and the other order
OtherOrder(a) == IF a.encodeOrder = OrderInversed THEN ZBASE32Normal ELSE ZBASE32

\* C6 as stated: every input of two or more bytes encodes to different symbol
\* sequences under ZBASE32 (Inverse) and under the Normal-order alphabet built
\* from the same 32-symbol string.
C6_Original ==
    (pc \in {"encoded", "roundtrip"} /\ Len(input) >= 2
        /\ HasZBASE32Symbols(alphabet[1])) =>
        enc.str # EncodeAlphabet(input, OtherOrder(alphabet[1])).str

\* C6 as amended: the two encodings of an input of two or more bytes have the
\* same length, and they differ whenever the low five bits of the first byte
\* differ from its high five bits (b0 & 0x1F # b0 >> 3); other inputs, such
\* as all-zero bytes, can encode alike.
C6_Amended ==
    (pc \in {"encoded", "roundtrip"} /\ Len(input) >= 2
        /\ HasZBASE32Symbols(alphabet[1])) =>
        LET other == EncodeAlphabet(input, OtherOrder(alphabet[1])).str IN
        /\ Len(enc.str) = Len(other)
        /\ BitAnd(input[1], 31) # Shr(input[1], 3) => enc.str # other
        /\ (\A k \in 1 .. Len(input) : input[k] = 0) => enc.str = other

\* "hello" was encoded under ZBASE32 and differs from its Normal-order encoding
C6_Witness ==
    /\ pc = "encoded"
    /\ alphabet[1] = ZBASE32
    /\ input = Str_hello
    /\ BitAnd(input[1], 31) # Shr(input[1], 3)
    /\ enc.str # EncodeAlphabet(input, ZBASE32Normal).str

C8_NoPartialOutput ==
    (pc = "decoded" /\ FirstInvalid(input, alphabet[1]) >= 0) =>
        /\ dec.err # Nil
        /\ dec.n = 0
        /\ dec.isNil
        /\ dec.bytes = << >>

\* a decode failed at offset 9, after five bytes had been written to the buffer
C8_Witness ==
    /\ pc = "decoded"
    /\ FirstInvalid(input, alphabet[1]) = 9
    /\ dec.written = 5
    /\ dec.err # Nil
    /\ dec.n = 0
    /\ dec.isNil

\* "em3ags7p", "bd", "wm3g84fg13cy", "em3ags7py376g3tprd", "wm3g84b"
Enc_Z_hello == << 101, 109, 51, 97, 103, 115, 55, 112 >>

Enc_Z_a == << 98, 100 >>

Enc_Z_test123 == << 119, 109, 51, 103, 56, 52, 102, 103, 49, 51, 99, 121 >>

Enc_Z_hello_world ==
    << 101, 109, 51, 97, 103, 115, 55, 112, 121, 51, 55, 54, 103, 51, 116, 112, 114, 100 >>

Enc_Z_test == << 119, 109, 51, 103, 56, 52, 98 >>

\* "NBSWY3DP", "ORSXG5BRGIZQ"
Enc_R_hello == << 78, 66, 83, 87, 89, 51, 68, 80 >>

Enc_R_test123 == << 79, 82, 83, 88, 71, 53, 66, 82, 71, 73, 90, 81 >>

\* "dpjkcmr0"
Enc_B_hello == << 100, 112, 106, 107, 99, 109, 114, 48 >>

\* <<alphabet name, input, documented encoding>>
DocumentedVectors ==
    {<<"ZBASE32", Str_hello, Enc_Z_hello>>,
     <<"ZBASE32", Str_a, Enc_Z_a>>,
     <<"ZBASE32", << >>, << >> >>,
     <<"ZBASE32", Str_test123, Enc_Z_test123>>,
     <<"ZBASE32", Str_hello_world, Enc_Z_hello_world>>,
     <<"ZBASE32", Str_test, Enc_Z_test>>,
     <<"RFC4648", Str_hello, Enc_R_hello>>,
     <<"RFC4648", Str_test123, Enc_R_test123>>,
     <<"BECH32", Str_hello, Enc_B_hello>>}

Named(name) ==
    CASE name = "ZBASE32" -> ZBASE32
      [] name = "RFC4648" -> RFC4648
      [] name = "BECH32" -> BECH32

Listed_Z_test == << 119, 109, 51, 103, 115, 111 >>

Listed_Z_binary == << 98, 110, 53, 120, 119, 52, 114, 121, 103, 109 >>

\* "nm4hsojq3d"
Enc_Z_binary == << 110, 109, 52, 104, 115, 111, 106, 113, 51, 100 >>

Alone(c, a) ==
    IF c.op = "encode"
    THEN EncodeToSlice(c.input, MakeBuf(EncodedLen(Len(c.input))), a)
    ELSE DecodeAlphabetToSlice(c.input, MakeBuf(DecodedLen(Len(c.input))), a)

GroupCount(n) == (8 * n + 4) \div 5

\* bit t (0 = first) of the bytes of b strung together most significant bit
\* first, 0 past the end
BitMSB(b, t) ==
    IF t >= 8 * Len(b) THEN 0 ELSE (b[(t \div 8) + 1] \div (2 ^ (7 - (t % 8)))) % 2

\* the k-th 5-bit group of that bit string, its first bit the highest
GroupMSB(b, k) ==
    BitMSB(b, 5 * k) * 16 + BitMSB(b, 5 * k + 1) * 8 + BitMSB(b, 5 * k + 2) * 4
        + BitMSB(b, 5 * k + 3) * 2 + BitMSB(b, 5 * k + 4)

\* C12: with an OrderNormal alphabet the encoding of n bytes has exactly
\* ceil(8n/5) symbols, and symbol k is the forward-table entry of the k-th
\* 5-bit group of the input bits taken most significant bit first, the last
\* group padded with zero bits on the right; no '=' is appended.
C12_NormalReference ==
    (pc \in {"encoded", "roundtrip"} /\ alphabet[1].encodeOrder = OrderNormal) =>
        /\ ~enc.panic
        /\ enc.encLen = GroupCount(Len(input))
        /\ Len(enc.str) = GroupCount(Len(input))
        /\ \A k \in 0 .. (GroupCount(Len(input)) - 1) :
              enc.str[k + 1] = alphabet[1].encodeSymbols[GroupMSB(input, k)]

\* four bytes ending in 0xff under RFC4648: seven symbols, the last one the
\* group 11000 made of two input bits and three padding bits
C12_Witness ==
    /\ pc = "encoded"
    /\ alphabet[1] = RFC4648
    /\ Len(input) = 4
    /\ input[4] = 255
    /\ Len(enc.str) = 7
    /\ GroupMSB(input, 6) = 24
    /\ enc.str[7] = 89

\* bit t of N = sum of b[i] * 2^(8i), the input read as a little-endian
\* integer, 0 past the end
BitLSB(b, t) ==
    IF t >= 8 * Len(b) THEN 0 ELSE (b[(t \div 8) + 1] \div (2 ^ (t % 8))) % 2

\* (N >> 5k) mod 32
GroupLSB(b, k) ==
    BitLSB(b, 5 * k) + BitLSB(b, 5 * k + 1) * 2 + BitLSB(b, 5 * k + 2) * 4
        + BitLSB(b, 5 * k + 3) * 8 + BitLSB(b, 5 * k + 4) * 16

\* the bits of the carry after the byte at position i: 3, 1, 4, 2, and none
CarryBits(i) ==
    CASE i % 5 = 0 -> 3
      [] i % 5 = 1 -> 1
      [] i % 5 = 2 -> 4
      [] i % 5 = 3 -> 2
      [] i % 5 = 4 -> 0

\* N >> (8 * Len(b) - w): the w highest bits of the input read so far
HighBits(b, w) ==
    LET RECURSIVE Sum(_)
        Sum(j) == IF j >= w THEN 0
                  ELSE BitLSB(b, 8 * Len(b) - w + j) * (2 ^ j) + Sum(j + 1)
    IN  Sum(0)

\* remain as the loop of EncodeToSlice leaves it after the last byte of b
CarryAfter(b, a) ==
    EncodeLoop(b, 0, [output |-> MakeBuf(EncodedLen(Len(b))), o |-> 0,
                      remain |-> -1, panic |-> FALSE], a).remain

\* C13: with an OrderInversed alphabet the encoding of n bytes has exactly
\* ceil(8n/5) symbols, and symbol k is the forward-table entry of
\* (N >> 5k) mod 32 for N the input read as a little-endian integer, the last
\* group padded with zero bits at the high end; the carry left by the byte at
\* position i holds the 3, 1, 4, 2 highest bits of the input so far for
\* i mod 5 = 0, 1, 2, 3 and is -1 for i mod 5 = 4.
C13_InversedReference ==
    (pc \in {"encoded", "roundtrip"} /\ alphabet[1].encodeOrder = OrderInversed) =>
        /\ ~enc.panic
        /\ enc.encLen = GroupCount(Len(input))
        /\ Len(enc.str) = GroupCount(Len(input))
        /\ \A k \in 0 .. (GroupCount(Len(input)) - 1) :
              enc.str[k + 1] = alphabet[1].encodeSymbols[GroupLSB(input, k)]
        /\ Len(input) > 0 =>
              LET i == Len(input) - 1
                  remain == CarryAfter(input, alphabet[1])
              IN  IF i % 5 = 4 THEN remain = -1
                  ELSE /\ remain = HighBits(input, CarryBits(i))
                       /\ remain >= 0 /\ remain < 2 ^ CarryBits(i)
                       /\ 8 * Len(input) - 5 * (GroupCount(Len(input)) - 1) = CarryBits(i)

\* three bytes ending in 0xff under ZBASE32: five symbols, and the carry
\* after position 2 is the four bits 1111, emitted as the last symbol
C13_Witness ==
    /\ pc = "encoded"
    /\ alphabet[1] = ZBASE32
    /\ Len(input) = 3
    /\ input[3] = 255
    /\ Len(enc.str) = 5
    /\ CarryAfter(input, alphabet[1]) = 15
    /\ GroupLSB(input, 4) = 15
    /\ enc.str[5] = 120

\* the 5-bit value of the symbol at Go index k of s
SymbolValue(s, k, a) == a.decodeBytes[s[k + 1]]

\* bit t of sum of v_k * 2^(5k): the symbol values strung together lowest
\* bit first, 0 past the end
SymBitLSB(s, t, a) ==
    IF t >= 5 * Len(s) THEN 0 ELSE (SymbolValue(s, t \div 5, a) \div (2 ^ (t % 5))) % 2

\* bit t of the symbol values strung together highest bit first
SymBitMSB(s, t, a) ==
    IF t >= 5 * Len(s) THEN 0 ELSE (SymbolValue(s, t \div 5, a) \div (2 ^ (4 - (t % 5)))) % 2

\* byte j of the stream of symbol bits, in the order of the alphabet
StreamByte(s, j, a) ==
    LET RECURSIVE Sum(_)
        Sum(t) == IF t >= 8 THEN 0
                  ELSE (IF a.encodeOrder = OrderInversed
                        THEN SymBitLSB(s, 8 * j + t, a) * (2 ^ t)
                        ELSE SymBitMSB(s, 8 * j + t, a) * (2 ^ (7 - t)))
                       + Sum(t + 1)
    IN  Sum(0)

\* the bytes decode returns for m valid symbols
DecodedCount(m, order) ==
    IF order = OrderInversed
    THEN (IF m = 0 THEN 0 ELSE ((5 * (m - 1)) \div 8) + 1)
    ELSE (5 * m) \div 8

\* the string the last decode call was given
Decoded == IF pc = "roundtrip" THEN enc.str ELSE input

\* C14: decoding m valid symbols never fails.  With OrderInversed it returns
\* 0 bytes for m = 0 and floor(5(m-1)/8) + 1 bytes for m >= 1: the last byte
\* is the low 8 pending bits, zero-filled when fewer are pending, and pending
\* bits above them are dropped.  With OrderNormal it returns floor(5m/8)
\* bytes and drops the fewer than 8 trailing bits, whatever their value.
\* Every byte returned is the matching byte of the stream of symbol bits.
C14_DecodedCount ==
    (pc \in {"decoded", "roundtrip"} /\ FirstInvalid(Decoded, alphabet[1]) = -1) =>
        LET a == alphabet[1]
            m == Len(Decoded)
            count == DecodedCount(m, a.encodeOrder)
        IN  /\ dec.err = Nil /\ ~dec.isNil /\ ~dec.panic
            /\ dec.n = count
            /\ Len(dec.bytes) = count
            /\ \A j \in 0 .. (count - 1) : dec.bytes[j + 1] = StreamByte(Decoded, j, a)

\* "99", two symbols of value 31, under ZBASE32: ten bits are pending at the
\* end, the low eight are flushed as the one byte 0xff and the two set bits
\* above them are dropped without error
C14_Witness ==
    /\ pc = "decoded"
    /\ alphabet[1] = ZBASE32
    /\ input = << 57, 57 >>
    /\ dec.err = Nil
    /\ dec.bytes = << 255 >>
    /\ 5 * Len(input) - 8 * Len(dec.bytes) = 2

=============================================================================
